---- MODULE Spec2Model ----
(***************************************************************************)
(* State-synchronisation and session-lifecycle engine of the VibeX client: *)
(* the App component (authentication guard) and the MainApp component      *)
(* (session registry, lifecycle controller, chat synchroniser), several    *)
(* browser clients working against one remote store.                       *)
(*                                                                         *)
(* Every remote call of the code is an await: the handler reads its local  *)
(* state when it is invoked, the store executes the call later, and the    *)
(* continuation after the await runs later still.  Each of the three is a  *)
(* step of the model.                                                      *)
(***************************************************************************)
EXTENDS Integers, Sequences, FiniteSets, TLC

\* ------------------------------------------------------------------ bounds
NumClients == 3
MaxSessions == 2
MaxPart == 3
MaxPending == 2
MaxFetch == 2
MaxFailures == 1
MaxDuration == 60
MaxOps == 3
MaxMessages == 2
MaxRevals == 2
MaxReloads == 1

Clients == 1..NumClients
Users == Clients

\* ------------------------------------------------------- program constants
ExtendStep == 15
\* setTimeout(..., 10000) of the loading guard, in seconds
LoadingTimeout == 10
\* the durations the create form is submitted with
Durations == {30}

\* null, for the banner text
Null == "null"
\* null, for a user id
NoUser == 0
\* null, for a Session
NoSession == [id |-> 0, status |-> "null", creator |-> NoUser, duration |-> 0,
              participants |-> <<>>]

VARIABLES
    \* remote store
    dbSessions,      \* the sessions table: row i has id i
    dbMessages,      \* the messages table: row i has id i, in created_at order
    \* MainApp, per client
    sessions,        \* useState<Session[]>: the local copy of the active sessions
    activeSession,   \* useState<Session | null>
    isChatVisible,   \* useState(false)
    newEventCoords,  \* useState<coords | null>: TRUE when coordinates are held
    error,           \* useState<string | null>: the banner
    logoutTimers,    \* pending setTimeout(() => onLogout(), 2000), in the order set:
                     \* for each, the user whose handler set it
    ops,             \* handler invocations suspended at their await
    sessSub,         \* sessionsSubscription: "off", "joining", "live"
    sessFeed,        \* a change event of the sessions feed is undelivered
    chatMessages,    \* useState<VibeMessage[]>
    chatSub,         \* messagesSubscription: the session it filters on, and its state
    chatFeed,        \* insert events of the messages feed, undelivered, in order
    chatOps,         \* chat calls suspended at their await
    \* App, per client
    loading,         \* useState(true)
    currentUser,     \* useState<User | null>: the user id, or NoUser
    initPc,          \* initializeAndListen: "getSession", "profile", "loaded", "listening"
    authSession,     \* the user of the session supabase.auth holds, or NoUser
    authEvents,      \* auth state changes the listener has not handled, in order
    authOps,         \* App calls suspended at their await
    guardTimer,      \* the loading guard's setTimeout: "armed", "off"
    elapsed,         \* seconds since the guard's timer was armed
    pageLoads,       \* page loads after the first
    loadCause,       \* what caused the last page load: "start", "guard", "logout"
    storage,         \* localStorage and sessionStorage of the page: "used", "cleared"
    \* environment
    failures,        \* remote calls the environment has failed so far
    invoked          \* remote calls the users have started so far

mainVars == <<sessions, activeSession, isChatVisible, newEventCoords, error,
              logoutTimers, ops, sessSub, sessFeed>>
chatVars == <<dbMessages, chatMessages, chatSub, chatFeed, chatOps>>
appVars == <<loading, currentUser, initPc, authSession, authEvents, authOps,
             guardTimer, elapsed, pageLoads, loadCause, storage>>
envVars == <<failures, invoked>>
vars == <<dbSessions, mainVars, chatVars, appVars, envVars>>

\* --------------------------------------------------------------- helpers
Range(s) == {s[i] : i \in 1..Len(s)}

RECURSIVE Filter(_, _)
\* participants.filter(p => p !== user.id)
Filter(s, u) ==
    IF s = <<>> THEN <<>>
    ELSE IF Head(s) = u THEN Filter(Tail(s), u)
         ELSE <<Head(s)>> \o Filter(Tail(s), u)

\* [...session.participants, user.id]
AppendUser(s, u) == Append(s, u)

\* a row of the table as a client sees it: the row with its id
RowOf(i) == [id |-> i] @@ dbSessions[i]

\* .from('sessions').select(...).eq('status', 'active')
ActiveRows == {RowOf(i) : i \in {j \in 1..Len(dbSessions) : dbSessions[j].status = "active"}}

\* sessions.find(s => s.id === sessionId): the rows found (none or one)
Find(c, sid) == {r \in sessions[c] : r.id = sid}

\* const [sessionValid, setSessionValid] = useState(true); never set again
sessionValid == TRUE

\* a render gate that looks at the user alone
RenderedNoLoadingGate(c) == currentUser[c] # NoUser

\* App renders MainApp only when it is not loading and holds a user
Rendered(c) == ~loading[c] /\ currentUser[c] # NoUser

OpsOf(c) == {o \in ops : o.client = c}

\* error.message.includes('JWT') || error.message.includes('session')
IsAuthExpired(outcome) == outcome = "authexp"

\* every client whose sessions feed is live gets a change event
Notify == [c \in Clients |-> IF sessSub[c] = "live" THEN TRUE ELSE sessFeed[c]]

Outcomes == {"ok", "transient", "authexp", "throw"}
Failures == Outcomes \ {"ok"}

UserKinds == {"create", "join", "leave", "close", "extend"}

\* the handler invocations of c that were started by the user
UserOps(c) == {o \in OpsOf(c) : o.kind \in UserKinds}
FetchOps(c) == {o \in OpsOf(c) : o.kind = "fetch"}

FreeSlot(S) == CHOOSE n \in 1..(Cardinality(S) + 1) : \A o \in S : o.slot # n

\* a handler of c suspended at its await; it keeps what its closure captured
NewOp(c, kind, sid, parts, dur, wasActive) ==
    [client |-> c, kind |-> kind, sid |-> sid, parts |-> parts, dur |-> dur,
     wasActive |-> wasActive, user |-> currentUser[c], stage |-> "req",
     data |-> NoSession, rows |-> {}, orphan |-> FALSE,
     slot |-> FreeSlot(IF kind = "fetch" THEN FetchOps(c) ELSE UserOps(c))]

CanInvoke(c) == Rendered(c) /\ sessionValid /\ Cardinality(UserOps(c)) < MaxPending

\* a user handler of c suspends at its remote call
Start(o) ==
    /\ invoked < MaxOps
    /\ invoked' = invoked + 1
    /\ ops' = ops \cup {o}

\* The continuation's error branch, shared by every handler:
\*   if (message.includes('JWT') || message.includes('session')) {
\*       setError("Session expired..."); setTimeout(() => onLogout(), 2000) }
\*   else <msg, where the handler sets one>
\* A set-state of an unmounted component does nothing; the timer still starts.
AfterError(o, msg, thrownMsg) ==
    LET c == o.client
        text == IF o.stage = "throw" THEN thrownMsg
                ELSE IF IsAuthExpired(o.stage) THEN "Session expired. Please log in again."
                ELSE msg
    IN  /\ error' = IF o.orphan \/ text = Null THEN error
                     ELSE [error EXCEPT ![c] = text]
        /\ logoutTimers' = IF IsAuthExpired(o.stage)
                            THEN [logoutTimers EXCEPT ![c] = Append(@, o.user)]
                            ELSE logoutTimers

\* ------------------------------------------------ MainApp: chat effect
NoChatSub == [sid |-> 0, state |-> "off"]

ChatOpsOf(c) == {o \in chatOps : o.client = c}

\* a chat call of c suspended at its await
NewChatOp(c, kind, sid, mid) ==
    [client |-> c, kind |-> kind, sid |-> sid, mid |-> mid, user |-> currentUser[c],
     stage |-> "req", msgs |-> <<>>, orphan |-> FALSE,
     slot |-> FreeSlot({o \in ChatOpsOf(c) : o.kind = kind})]

\* a messages effect that returns no cleanup: the channel of the last run
\* stays when the new run subscribes none
ChatEffectNoCleanup(c, rerun) ==
    /\ UNCHANGED <<dbMessages, chatMessages>>
    /\ IF ~rerun
       THEN UNCHANGED <<chatSub, chatFeed, chatOps>>
       ELSE IF sessionValid /\ isChatVisible'[c] /\ activeSession'[c] # NoSession
            THEN /\ chatFeed' = [chatFeed EXCEPT ![c] = <<>>]
                 /\ chatSub' = [chatSub EXCEPT ![c] =
                                    [sid |-> activeSession'[c].id, state |-> "joining"]]
                 /\ chatOps' = chatOps \cup
                               {NewChatOp(c, "msgfetch", activeSession'[c].id, 0)}
            ELSE UNCHANGED <<chatSub, chatFeed, chatOps>>

\* useEffect(..., [isChatVisible, activeSession, sessionValid, onLogout]), run
\* after a step that set isChatVisible or activeSession (rerun: a dependency
\* changed): the cleanup removes the channel of the last run; with the chat
\* visible and a session held, fetchMessages() is called and a channel
\* filtered on the session is subscribed.
ChatEffect(c, rerun) ==
    /\ UNCHANGED <<dbMessages, chatMessages>>
    /\ IF ~rerun
       THEN UNCHANGED <<chatSub, chatFeed, chatOps>>
       ELSE /\ chatFeed' = [chatFeed EXCEPT ![c] = <<>>]
            /\ IF sessionValid /\ isChatVisible'[c] /\ activeSession'[c] # NoSession
               THEN /\ chatSub' = [chatSub EXCEPT ![c] =
                                       [sid |-> activeSession'[c].id, state |-> "joining"]]
                    /\ chatOps' = chatOps \cup
                                  {NewChatOp(c, "msgfetch", activeSession'[c].id, 0)}
               ELSE /\ chatSub' = [chatSub EXCEPT ![c] = NoChatSub]
                    /\ UNCHANGED chatOps

\* ------------------------------------------------ MainApp: mount, unmount
\* MainApp is rendered for c: its state is created and its effects run
\* (fetchSessions() is called and the sessions channel is subscribed).
Mount(c) ==
    /\ sessions' = [sessions EXCEPT ![c] = {}]
    /\ activeSession' = [activeSession EXCEPT ![c] = NoSession]
    /\ isChatVisible' = [isChatVisible EXCEPT ![c] = FALSE]
    /\ newEventCoords' = [newEventCoords EXCEPT ![c] = FALSE]
    /\ error' = [error EXCEPT ![c] = Null]
    /\ ops' = ops \cup {[NewOp(c, "fetch", 0, <<>>, 0, FALSE) EXCEPT
                             !.user = currentUser'[c]]}
    /\ sessSub' = [sessSub EXCEPT ![c] = "joining"]
    /\ sessFeed' = [sessFeed EXCEPT ![c] = FALSE]
    /\ chatMessages' = [chatMessages EXCEPT ![c] = <<>>]
    /\ chatSub' = [chatSub EXCEPT ![c] = NoChatSub]
    /\ chatFeed' = [chatFeed EXCEPT ![c] = <<>>]
    /\ UNCHANGED <<logoutTimers, chatOps, dbMessages>>

\* MainApp is no longer rendered for c: its state is gone, the effect's
\* cleanup removes the channel, the suspended handlers and the timers go on.
Unmount(c) ==
    /\ sessions' = [sessions EXCEPT ![c] = {}]
    /\ activeSession' = [activeSession EXCEPT ![c] = NoSession]
    /\ isChatVisible' = [isChatVisible EXCEPT ![c] = FALSE]
    /\ newEventCoords' = [newEventCoords EXCEPT ![c] = FALSE]
    /\ error' = [error EXCEPT ![c] = Null]
    /\ ops' = {IF o.client = c THEN [o EXCEPT !.orphan = TRUE] ELSE o : o \in ops}
    /\ sessSub' = [sessSub EXCEPT ![c] = "off"]
    /\ sessFeed' = [sessFeed EXCEPT ![c] = FALSE]
    /\ chatMessages' = [chatMessages EXCEPT ![c] = <<>>]
    /\ chatSub' = [chatSub EXCEPT ![c] = NoChatSub]
    /\ chatFeed' = [chatFeed EXCEPT ![c] = <<>>]
    /\ chatOps' = {IF o.client = c THEN [o EXCEPT !.orphan = TRUE] ELSE o : o \in chatOps}
    /\ UNCHANGED <<logoutTimers, dbMessages>>

\* ------------------------------------------------ MainApp: sessions feed
\* the channel's subscription becomes live at the store
SubscribeLive(c) ==
    /\ sessSub[c] = "joining"
    /\ sessSub' = [sessSub EXCEPT ![c] = "live"]
    /\ UNCHANGED <<dbSessions, sessions, activeSession, isChatVisible, newEventCoords,
                   error, logoutTimers, ops, sessFeed, appVars, failures, invoked, chatVars>>

\* payload => { fetchSessions() }: the feed delivers a change event and the
\* handler calls fetchSessions, which suspends at its select
PushDeliver(c) ==
    /\ sessSub[c] = "live"
    /\ sessFeed[c]
    /\ Cardinality(FetchOps(c)) < MaxFetch
    /\ sessFeed' = [sessFeed EXCEPT ![c] = FALSE]
    /\ ops' = ops \cup {NewOp(c, "fetch", 0, <<>>, 0, FALSE)}
    /\ UNCHANGED <<dbSessions, sessions, activeSession, isChatVisible, newEventCoords,
                   error, logoutTimers, sessSub, appVars, failures, invoked, chatVars>>

\* the store executes the select
FetchExec(o) ==
    /\ o.kind = "fetch" /\ o.stage = "req"
    /\ ops' = (ops \ {o}) \cup {[o EXCEPT !.stage = "ok", !.rows = ActiveRows]}
    /\ UNCHANGED <<dbSessions, sessions, activeSession, isChatVisible, newEventCoords,
                   error, logoutTimers, sessSub, sessFeed, appVars, failures, invoked, chatVars>>

\* fetchSessions after its await
FetchResp(o) ==
    /\ o.kind = "fetch" /\ o.stage # "req"
    /\ ops' = ops \ {o}
    /\ IF o.stage = "ok"
       THEN /\ sessions' = IF o.orphan THEN sessions
                            ELSE [sessions EXCEPT ![o.client] = o.rows]
            /\ error' = IF o.orphan THEN error ELSE [error EXCEPT ![o.client] = Null]
            /\ UNCHANGED logoutTimers
       ELSE /\ AfterError(o, "Failed to load sessions. Please refresh the page.",
                           "An unexpected error occurred while loading sessions.")
            /\ UNCHANGED sessions
    /\ UNCHANGED <<dbSessions, activeSession, isChatVisible, newEventCoords,
                   sessSub, sessFeed, appVars, failures, invoked, chatVars>>

\* A change event is delivered, fetchSessions runs its select and
\* setSessions(data) at once: PushDeliver, FetchExec and FetchResp taken
\* together, for the specifications in which a client has one refresh in
\* flight at a time (the copy a client holds is then a past content of the
\* table, as old as the delay of this step makes it)
Refresh(c) ==
    /\ sessSub[c] = "live"
    /\ sessFeed[c]
    /\ FetchOps(c) = {}
    /\ sessFeed' = [sessFeed EXCEPT ![c] = FALSE]
    /\ sessions' = [sessions EXCEPT ![c] = ActiveRows]
    /\ error' = [error EXCEPT ![c] = Null]
    /\ UNCHANGED <<dbSessions, activeSession, isChatVisible, newEventCoords,
                   logoutTimers, ops, sessSub, appVars, failures, invoked, chatVars>>

\* a remote call fails: the store is not changed
ExecFail(o, out) ==
    /\ o.stage = "req"
    /\ out \in Failures
    /\ failures < MaxFailures
    /\ failures' = failures + 1
    /\ ops' = (ops \ {o}) \cup {[o EXCEPT !.stage = out]}
    /\ UNCHANGED <<dbSessions, sessions, activeSession, isChatVisible, newEventCoords,
                   error, logoutTimers, sessSub, sessFeed, appVars, invoked, chatVars>>

\* --------------------------------------- MainApp: what the user can reach
SessionIds == 1..MaxSessions

\* the session copies MapView and VibeChatPanel are given
LocalRows(c) == sessions[c] \cup ({activeSession[c]} \ {NoSession})

\* close and extend are offered to the creator and to the participants
Authorized(c, sid) ==
    \E r \in LocalRows(c) :
        /\ r.id = sid
        /\ (r.creator = currentUser[c] \/ currentUser[c] \in Range(r.participants))

PendingCreates == Cardinality({o \in ops : o.kind = "create" /\ o.stage = "req"})

\* the rest of the state, for an action that only changes ops
OnlyOps == UNCHANGED <<dbSessions, sessions, activeSession, isChatVisible, newEventCoords,
                       error, logoutTimers, sessSub, sessFeed, appVars, failures, chatVars>>

\* ------------------------------------------------------- MainApp: create
handleMapClickInCreateMode(c) ==
    /\ Rendered(c)
    /\ IF activeSession[c] # NoSession
       THEN UNCHANGED newEventCoords
       ELSE newEventCoords' = [newEventCoords EXCEPT ![c] = TRUE]
    /\ UNCHANGED <<dbSessions, sessions, activeSession, isChatVisible, error,
                   logoutTimers, ops, sessSub, sessFeed, appVars, failures, invoked, chatVars>>

\* CreateEventModal onClose
CloseCreateModal(c) ==
    /\ Rendered(c)
    /\ newEventCoords[c]
    /\ newEventCoords' = [newEventCoords EXCEPT ![c] = FALSE]
    /\ UNCHANGED <<dbSessions, sessions, activeSession, isChatVisible, error,
                   logoutTimers, ops, sessSub, sessFeed, appVars, failures, invoked, chatVars>>

\* handleCreateSession up to its await
CreateInvoke(c, d) ==
    /\ CanInvoke(c)
    /\ newEventCoords[c]
    /\ Len(dbSessions) + PendingCreates < MaxSessions
    /\ Start(NewOp(c, "create", 0, <<currentUser[c]>>, d, FALSE))
    /\ OnlyOps

\* .insert({...sessionData, status: 'active', creator_id, participants}).select().single()
CreateExec(o) ==
    /\ o.kind = "create" /\ o.stage = "req"
    /\ dbSessions' = Append(dbSessions, [status |-> "active", creator |-> o.user,
                                          duration |-> o.dur, participants |-> o.parts])
    /\ ops' = (ops \ {o}) \cup
              {[o EXCEPT !.stage = "ok",
                         !.data = [id |-> Len(dbSessions) + 1, status |-> "active",
                                   creator |-> o.user, duration |-> o.dur,
                                   participants |-> o.parts]]}
    /\ sessFeed' = Notify
    /\ UNCHANGED <<sessions, activeSession, isChatVisible, newEventCoords, error,
                   logoutTimers, sessSub, appVars, failures, invoked, chatVars>>

\* handleCreateSession after its await
CreateResp(o) ==
    /\ o.kind = "create" /\ o.stage # "req"
    /\ ops' = ops \ {o}
    /\ IF o.stage = "ok"
       THEN /\ activeSession' = IF o.orphan THEN activeSession
                                 ELSE [activeSession EXCEPT ![o.client] = o.data]
            /\ newEventCoords' = IF o.orphan THEN newEventCoords
                                  ELSE [newEventCoords EXCEPT ![o.client] = FALSE]
            /\ error' = IF o.orphan THEN error ELSE [error EXCEPT ![o.client] = Null]
            /\ UNCHANGED logoutTimers
       ELSE /\ AfterError(o, "Failed to create session. Please try again.",
                           "Failed to create session. Please try again.")
            /\ UNCHANGED <<activeSession, newEventCoords>>
    /\ UNCHANGED <<dbSessions, sessions, isChatVisible, sessSub, sessFeed, appVars, failures, invoked>>
    /\ ChatEffect(o.client, o.stage = "ok" /\ ~o.orphan)

\* --------------------------------------------------------- MainApp: join
\* handleJoinSession up to its await
JoinInvoke(c, sid) ==
    /\ Rendered(c) /\ sessionValid
    /\ IF activeSession[c] # NoSession \/ Find(c, sid) = {}
       THEN UNCHANGED <<ops, invoked>>
       ELSE LET session == CHOOSE r \in Find(c, sid) : TRUE
            IN  /\ Cardinality(UserOps(c)) < MaxPending
                /\ Len(session.participants) < MaxPart
                /\ Start(NewOp(c, "join", sid,
                                           AppendUser(session.participants, currentUser[c]),
                                           0, FALSE))
    /\ OnlyOps

\* the update writing the whole cached row back, its status with it
JoinExecWritesStatus(o) ==
    /\ o.kind = "join" /\ o.stage = "req"
    /\ dbSessions' = [dbSessions EXCEPT ![o.sid].participants = o.parts,
                                         ![o.sid].status = "active"]
    /\ ops' = (ops \ {o}) \cup
              {[o EXCEPT !.stage = "ok",
                         !.data = [RowOf(o.sid) EXCEPT !.participants = o.parts]]}
    /\ sessFeed' = Notify
    /\ UNCHANGED <<sessions, activeSession, isChatVisible, newEventCoords, error,
                   logoutTimers, sessSub, appVars, failures, invoked, chatVars>>

\* the update as an atomic append at the store (array_append)
JoinExecAtomicAppend(o) ==
    /\ o.kind = "join" /\ o.stage = "req"
    /\ dbSessions' = [dbSessions EXCEPT ![o.sid].participants = Append(@, o.user)]
    /\ ops' = (ops \ {o}) \cup
              {[o EXCEPT !.stage = "ok",
                         !.data = [RowOf(o.sid) EXCEPT
                                      !.participants = Append(@, o.user)]]}
    /\ sessFeed' = Notify
    /\ UNCHANGED <<sessions, activeSession, isChatVisible, newEventCoords, error,
                   logoutTimers, sessSub, appVars, failures, invoked, chatVars>>

\* .update({ participants: newParticipants }).eq('id', sessionId).select().single()
JoinExec(o) ==
    /\ o.kind = "join" /\ o.stage = "req"
    /\ dbSessions' = [dbSessions EXCEPT ![o.sid].participants = o.parts]
    /\ ops' = (ops \ {o}) \cup
              {[o EXCEPT !.stage = "ok",
                         !.data = [RowOf(o.sid) EXCEPT !.participants = o.parts]]}
    /\ sessFeed' = Notify
    /\ UNCHANGED <<sessions, activeSession, isChatVisible, newEventCoords, error,
                   logoutTimers, sessSub, appVars, failures, invoked, chatVars>>

\* handleJoinSession after its await
JoinResp(o) ==
    /\ o.kind = "join" /\ o.stage # "req"
    /\ ops' = ops \ {o}
    /\ IF o.stage = "ok"
       THEN /\ activeSession' = IF o.orphan THEN activeSession
                                 ELSE [activeSession EXCEPT ![o.client] = o.data]
            /\ UNCHANGED <<error, logoutTimers>>
       ELSE /\ AfterError(o, Null, Null)
            /\ UNCHANGED activeSession
    /\ UNCHANGED <<dbSessions, sessions, isChatVisible, newEventCoords, sessSub, sessFeed,
                   appVars, failures, invoked>>
    /\ ChatEffect(o.client, o.stage = "ok" /\ ~o.orphan)

\* -------------------------------------------------------- MainApp: leave
\* handleLeaveSession up to its await; VibeChatPanel, rendered while a
\* session is held, calls it for its vibe
LeaveInvoke(c) ==
    /\ Rendered(c) /\ sessionValid
    /\ activeSession[c] # NoSession
    /\ IF Find(c, activeSession[c].id) = {}
       THEN UNCHANGED <<ops, invoked>>
       ELSE LET session == CHOOSE r \in Find(c, activeSession[c].id) : TRUE
            IN  /\ Cardinality(UserOps(c)) < MaxPending
                /\ Start(NewOp(c, "leave", session.id,
                                           Filter(session.participants, currentUser[c]),
                                           0, FALSE))
    /\ OnlyOps

\* .update({ participants: newParticipants }).eq('id', sessionId)
LeaveExec(o) ==
    /\ o.kind = "leave" /\ o.stage = "req"
    /\ dbSessions' = [dbSessions EXCEPT ![o.sid].participants = o.parts]
    /\ ops' = (ops \ {o}) \cup {[o EXCEPT !.stage = "ok"]}
    /\ sessFeed' = Notify
    /\ UNCHANGED <<sessions, activeSession, isChatVisible, newEventCoords, error,
                   logoutTimers, sessSub, appVars, failures, invoked, chatVars>>

\* a leave that clears the local session whatever the update returned
LeaveRespOptimistic(o) ==
    /\ o.kind = "leave" /\ o.stage # "req"
    /\ ops' = ops \ {o}
    /\ activeSession' = IF o.orphan THEN activeSession
                          ELSE [activeSession EXCEPT ![o.client] = NoSession]
    /\ isChatVisible' = IF o.orphan THEN isChatVisible
                          ELSE [isChatVisible EXCEPT ![o.client] = FALSE]
    /\ IF o.stage = "ok"
       THEN UNCHANGED <<error, logoutTimers>>
       ELSE AfterError(o, Null, Null)
    /\ UNCHANGED <<dbSessions, sessions, newEventCoords, sessSub, sessFeed, appVars, failures, invoked>>
    /\ ChatEffect(o.client, activeSession'[o.client] # activeSession[o.client]
                           \/ isChatVisible'[o.client] # isChatVisible[o.client])

\* handleLeaveSession after its await
LeaveResp(o) ==
    /\ o.kind = "leave" /\ o.stage # "req"
    /\ ops' = ops \ {o}
    /\ IF o.stage = "ok"
       THEN /\ activeSession' = IF o.orphan THEN activeSession
                                 ELSE [activeSession EXCEPT ![o.client] = NoSession]
            /\ isChatVisible' = IF o.orphan THEN isChatVisible
                                 ELSE [isChatVisible EXCEPT ![o.client] = FALSE]
            /\ UNCHANGED <<error, logoutTimers>>
       ELSE /\ AfterError(o, Null, Null)
            /\ UNCHANGED <<activeSession, isChatVisible>>
    /\ UNCHANGED <<dbSessions, sessions, newEventCoords, sessSub, sessFeed, appVars, failures, invoked>>
    /\ ChatEffect(o.client, activeSession'[o.client] # activeSession[o.client]
                           \/ isChatVisible'[o.client] # isChatVisible[o.client])

\* -------------------------------------------------------- MainApp: close
\* handleCloseSession up to its await; the closure keeps activeSession
CloseInvoke(c, sid) ==
    /\ CanInvoke(c)
    /\ Authorized(c, sid)
    /\ Start(NewOp(c, "close", sid, <<>>, 0, activeSession[c].id = sid))
    /\ OnlyOps

\* .update({ status: 'closed' }).eq('id', sessionId)
CloseExec(o) ==
    /\ o.kind = "close" /\ o.stage = "req"
    /\ dbSessions' = [dbSessions EXCEPT ![o.sid].status = "closed"]
    /\ ops' = (ops \ {o}) \cup {[o EXCEPT !.stage = "ok"]}
    /\ sessFeed' = Notify
    /\ UNCHANGED <<sessions, activeSession, isChatVisible, newEventCoords, error,
                   logoutTimers, sessSub, appVars, failures, invoked, chatVars>>

\* handleCloseSession after its await
CloseResp(o) ==
    /\ o.kind = "close" /\ o.stage # "req"
    /\ ops' = ops \ {o}
    /\ IF o.stage = "ok"
       THEN /\ activeSession' = IF o.orphan \/ ~o.wasActive THEN activeSession
                                 ELSE [activeSession EXCEPT ![o.client] = NoSession]
            /\ isChatVisible' = IF o.orphan \/ ~o.wasActive THEN isChatVisible
                                 ELSE [isChatVisible EXCEPT ![o.client] = FALSE]
            /\ UNCHANGED <<error, logoutTimers>>
       ELSE /\ AfterError(o, Null, Null)
            /\ UNCHANGED <<activeSession, isChatVisible>>
    /\ UNCHANGED <<dbSessions, sessions, newEventCoords, sessSub, sessFeed, appVars, failures, invoked>>
    /\ ChatEffect(o.client, activeSession'[o.client] # activeSession[o.client]
                           \/ isChatVisible'[o.client] # isChatVisible[o.client])

\* ------------------------------------------------------- MainApp: extend
\* handleExtendSession up to its await
ExtendInvoke(c, sid) ==
    /\ Rendered(c) /\ sessionValid
    /\ Authorized(c, sid)
    /\ IF Find(c, sid) = {}
       THEN UNCHANGED <<ops, invoked>>
       ELSE LET session == CHOOSE r \in Find(c, sid) : TRUE
            IN  /\ Cardinality(UserOps(c)) < MaxPending
                /\ session.duration + ExtendStep <= MaxDuration
                /\ Start(NewOp(c, "extend", sid, <<>>,
                                           session.duration + ExtendStep, FALSE))
    /\ OnlyOps

\* an update that adds the step to the duration the store holds
ExtendExecRelative(o) ==
    /\ o.kind = "extend" /\ o.stage = "req"
    /\ dbSessions' = [dbSessions EXCEPT ![o.sid].duration = @ + ExtendStep]
    /\ ops' = (ops \ {o}) \cup {[o EXCEPT !.stage = "ok"]}
    /\ sessFeed' = Notify
    /\ UNCHANGED <<sessions, activeSession, isChatVisible, newEventCoords, error,
                   logoutTimers, sessSub, appVars, failures, invoked, chatVars>>

\* .update({ duration: session.duration + 15 }).eq('id', sessionId)
ExtendExec(o) ==
    /\ o.kind = "extend" /\ o.stage = "req"
    /\ dbSessions' = [dbSessions EXCEPT ![o.sid].duration = o.dur]
    /\ ops' = (ops \ {o}) \cup {[o EXCEPT !.stage = "ok"]}
    /\ sessFeed' = Notify
    /\ UNCHANGED <<sessions, activeSession, isChatVisible, newEventCoords, error,
                   logoutTimers, sessSub, appVars, failures, invoked, chatVars>>

\* handleExtendSession after its await
ExtendResp(o) ==
    /\ o.kind = "extend" /\ o.stage # "req"
    /\ ops' = ops \ {o}
    /\ IF o.stage = "ok"
       THEN UNCHANGED <<error, logoutTimers>>
       ELSE AfterError(o, Null, Null)
    /\ UNCHANGED <<dbSessions, sessions, activeSession, isChatVisible, newEventCoords,
                   sessSub, sessFeed, appVars, failures, invoked, chatVars>>

\* ---------------------------------------------------- MainApp: chat panel
\* MapView onViewChat
ViewChat(c) ==
    /\ Rendered(c)
    /\ ~isChatVisible[c]
    /\ invoked < MaxOps
    /\ invoked' = invoked + 1
    /\ isChatVisible' = [isChatVisible EXCEPT ![c] = TRUE]
    /\ UNCHANGED <<dbSessions, sessions, activeSession, newEventCoords, error,
                   logoutTimers, ops, sessSub, sessFeed, appVars, failures>>
    /\ ChatEffect(c, TRUE)

\* VibeChatPanel onClose
CloseChat(c) ==
    /\ Rendered(c)
    /\ isChatVisible[c]
    /\ isChatVisible' = [isChatVisible EXCEPT ![c] = FALSE]
    /\ UNCHANGED <<dbSessions, sessions, activeSession, newEventCoords, error,
                   logoutTimers, ops, sessSub, sessFeed, appVars, failures, invoked>>
    /\ ChatEffect(c, TRUE)

\* ------------------------------------------------------------- App
AuthOpsOf(c) == {o \in authOps : o.client = c}

\* an App call of c suspended at its await
NewAuthOp(c, kind, u, origin) ==
    [client |-> c, kind |-> kind, user |-> u, origin |-> origin, stage |-> "req",
     slot |-> FreeSlot({o \in AuthOpsOf(c) : o.kind = kind})]

\* the loading guard's effect, run with the value of loading: the timer is
\* set while loading, and the cleanup clears it when loading has changed
LoadingTimerNoCleanup(isLoading) == "armed"

LoadingTimer(isLoading) == IF isLoading THEN "armed" ELSE "off"

\* App renders again after loading or currentUser was set: MainApp is
\* mounted when the step makes it rendered, unmounted when it no longer is
AppRender(c) ==
    IF Rendered(c)' /\ ~Rendered(c) THEN Mount(c)
    ELSE IF Rendered(c) /\ ~Rendered(c)' THEN Unmount(c)
    ELSE UNCHANGED <<mainVars, chatVars>>

\* a sign-out that notifies nobody
EmitNothing(c, ev) == authEvents

\* supabase.auth notifies the listener, once it is subscribed
Emit(c, ev) ==
    IF initPc[c] = "listening" THEN [authEvents EXCEPT ![c] = Append(@, ev)]
    ELSE authEvents

\* the page of c is loaded anew with its storage cleared: every component
\* state, suspended call and timer of the old page is gone, App starts (the
\* init effect calls getSession, the loading guard sets its timer)
Reload(c, cause) ==
    /\ pageLoads[c] < MaxReloads
    /\ pageLoads' = [pageLoads EXCEPT ![c] = @ + 1]
    /\ loadCause' = [loadCause EXCEPT ![c] = cause]
    /\ storage' = [storage EXCEPT ![c] = "cleared"]
    /\ loading' = [loading EXCEPT ![c] = TRUE]
    /\ currentUser' = [currentUser EXCEPT ![c] = NoUser]
    /\ initPc' = [initPc EXCEPT ![c] = "getSession"]
    /\ authSession' = [authSession EXCEPT ![c] = NoUser]
    /\ authEvents' = [authEvents EXCEPT ![c] = <<>>]
    /\ authOps' = {o \in authOps : o.client # c}
    /\ guardTimer' = [guardTimer EXCEPT ![c] = LoadingTimer(TRUE)]
    /\ elapsed' = [elapsed EXCEPT ![c] = 0]
    /\ sessions' = [sessions EXCEPT ![c] = {}]
    /\ activeSession' = [activeSession EXCEPT ![c] = NoSession]
    /\ isChatVisible' = [isChatVisible EXCEPT ![c] = FALSE]
    /\ newEventCoords' = [newEventCoords EXCEPT ![c] = FALSE]
    /\ error' = [error EXCEPT ![c] = Null]
    /\ logoutTimers' = [logoutTimers EXCEPT ![c] = <<>>]
    /\ ops' = {o \in ops : o.client # c}
    /\ sessSub' = [sessSub EXCEPT ![c] = "off"]
    /\ sessFeed' = [sessFeed EXCEPT ![c] = FALSE]
    /\ chatMessages' = [chatMessages EXCEPT ![c] = <<>>]
    /\ chatSub' = [chatSub EXCEPT ![c] = NoChatSub]
    /\ chatFeed' = [chatFeed EXCEPT ![c] = <<>>]
    /\ chatOps' = {o \in chatOps : o.client # c}
    /\ UNCHANGED <<dbSessions, dbMessages, failures, invoked>>

\* initializeAndListen after its getSession: with a session of a confirmed
\* user, loadUserProfile suspends at its select; with an error, no session or
\* an unconfirmed user, setCurrentUser(null), setLoading(false) and the
\* listener is subscribed
InitGetSessionResp(c, res) ==
    /\ initPc[c] = "getSession"
    /\ res \in {"ok", "error", "unconfirmed"}
    /\ res = "unconfirmed" => authSession[c] # NoUser
    /\ IF res = "ok" THEN UNCHANGED failures
       ELSE failures < MaxFailures /\ failures' = failures + 1
    /\ IF res = "ok" /\ authSession[c] # NoUser
       THEN /\ authOps' = authOps \cup {NewAuthOp(c, "profile", authSession[c], "init")}
            /\ initPc' = [initPc EXCEPT ![c] = "profile"]
            /\ UNCHANGED <<loading, currentUser, guardTimer>>
       ELSE /\ currentUser' = [currentUser EXCEPT ![c] = NoUser]
            /\ loading' = [loading EXCEPT ![c] = FALSE]
            /\ initPc' = [initPc EXCEPT ![c] = "listening"]
            /\ guardTimer' = [guardTimer EXCEPT ![c] = LoadingTimer(FALSE)]
            /\ UNCHANGED authOps
    /\ AppRender(c)
    /\ UNCHANGED <<dbSessions, authSession, authEvents, elapsed, pageLoads, loadCause, storage,
                   invoked>>

\* the store executes loadUserProfile's select (and, for a user without a
\* profile row, the insert of one): "found" is a profile returned by either
ProfileExec(o) ==
    /\ o.kind = "profile" /\ o.stage = "req"
    /\ authOps' = (authOps \ {o}) \cup {[o EXCEPT !.stage = "found"]}
    /\ UNCHANGED <<dbSessions, mainVars, chatVars, loading, currentUser, initPc,
                   authSession, authEvents, guardTimer, elapsed, pageLoads, loadCause, storage,
                   envVars>>

\* loadUserProfile after its await: setCurrentUser(profile or null); the
\* call made by initializeAndListen then returns to it
ProfileResp(o) ==
    /\ o.kind = "profile" /\ o.stage # "req"
    /\ authOps' = authOps \ {o}
    /\ currentUser' = [currentUser EXCEPT ![o.client] =
                          IF o.stage = "found" THEN o.user ELSE NoUser]
    /\ initPc' = IF o.origin = "init" THEN [initPc EXCEPT ![o.client] = "loaded"]
                 ELSE initPc
    /\ UNCHANGED loading
    /\ AppRender(o.client)
    /\ UNCHANGED <<dbSessions, authSession, authEvents, guardTimer, elapsed, pageLoads,
                   loadCause, storage, envVars>>

\* initializeAndListen after its await of loadUserProfile: setLoading(false)
\* and the listener is subscribed
InitFinish(c) ==
    /\ initPc[c] = "loaded"
    /\ loading' = [loading EXCEPT ![c] = FALSE]
    /\ initPc' = [initPc EXCEPT ![c] = "listening"]
    /\ guardTimer' = [guardTimer EXCEPT ![c] = LoadingTimer(FALSE)]
    /\ UNCHANGED currentUser
    /\ AppRender(c)
    /\ UNCHANGED <<dbSessions, authSession, authEvents, authOps, elapsed, pageLoads,
                   loadCause, storage, envVars>>

\* the user signs in as u on the login screen: supabase.auth holds the
\* session and notifies SIGNED_IN
SignIn(c, u) ==
    /\ ~loading[c] /\ currentUser[c] = NoUser
    /\ invoked < MaxOps
    /\ invoked' = invoked + 1
    /\ authSession' = [authSession EXCEPT ![c] = u]
    /\ authEvents' = Emit(c, [event |-> "SIGNED_IN", user |-> u])
    /\ storage' = [storage EXCEPT ![c] = "used"]
    /\ UNCHANGED <<dbSessions, mainVars, chatVars, loading, currentUser, initPc, authOps,
                   guardTimer, elapsed, pageLoads, loadCause, failures>>

\* the onAuthStateChange callback: SIGNED_IN of a user other than
\* userRef.current loads the profile, SIGNED_OUT sets the user to null
AuthEventDeliver(c) ==
    /\ initPc[c] = "listening"
    /\ authEvents[c] # <<>>
    /\ authEvents' = [authEvents EXCEPT ![c] = Tail(@)]
    /\ LET ev == Head(authEvents[c])
       IN  IF ev.event = "SIGNED_IN"
           THEN /\ authOps' = IF ev.user # currentUser[c]
                              THEN authOps \cup {NewAuthOp(c, "profile", ev.user, "event")}
                              ELSE authOps
                /\ UNCHANGED currentUser
           ELSE /\ currentUser' = [currentUser EXCEPT ![c] = NoUser]
                /\ UNCHANGED authOps
    /\ UNCHANGED loading
    /\ AppRender(c)
    /\ UNCHANGED <<dbSessions, initPc, authSession, guardTimer, elapsed, pageLoads,
                   loadCause, storage, envVars>>

\* handleVisibilityChange up to its await, the tab being visible: with a
\* current user, getSession is called (the handler that holds the user is
\* registered by the render that follows setCurrentUser, which does not
\* happen before initializeAndListen continues)
VisibilityChange(c) ==
    /\ currentUser[c] # NoUser
    /\ initPc[c] # "loaded"
    /\ Cardinality({o \in AuthOpsOf(c) : o.kind \in {"reval", "signout"}}) < MaxRevals
    /\ invoked < MaxOps
    /\ invoked' = invoked + 1
    /\ authOps' = authOps \cup {NewAuthOp(c, "reval", currentUser[c], "focus")}
    /\ UNCHANGED <<dbSessions, mainVars, chatVars, loading, currentUser, initPc,
                   authSession, authEvents, guardTimer, elapsed, pageLoads, loadCause, storage,
                   failures>>

\* handleVisibilityChange after its await: on an error, no session or the
\* session of another user, handleLogout() is called and suspends at signOut
RevalResp(o) ==
    /\ o.kind = "reval"
    /\ LET mismatch == \/ o.stage = "error"
                       \/ authSession[o.client] = NoUser
                       \/ authSession[o.client] # o.user
       IN  authOps' = IF mismatch
                      THEN (authOps \ {o}) \cup
                           {NewAuthOp(o.client, "signout", o.user, "focus")}
                      ELSE authOps \ {o}
    /\ UNCHANGED <<dbSessions, mainVars, chatVars, loading, currentUser, initPc,
                   authSession, authEvents, guardTimer, elapsed, pageLoads, loadCause, storage,
                   envVars>>

\* the session supabase.auth holds is lost (u = NoUser) or replaced by the
\* session of another user without the listener being notified
SessionChanged(c, u) ==
    /\ authSession[c] # NoUser
    /\ u # authSession[c]
    /\ failures < MaxFailures
    /\ failures' = failures + 1
    /\ authSession' = [authSession EXCEPT ![c] = u]
    /\ UNCHANGED <<dbSessions, mainVars, chatVars, loading, currentUser, initPc,
                   authEvents, authOps, guardTimer, elapsed, pageLoads, loadCause, storage,
                   invoked>>

\* PageHeader's logout button: onLogout()
LogoutButton(c) ==
    /\ Rendered(c)
    /\ invoked < MaxOps
    /\ invoked' = invoked + 1
    /\ authOps' = authOps \cup {NewAuthOp(c, "signout", currentUser[c], "button")}
    /\ UNCHANGED <<dbSessions, mainVars, chatVars, loading, currentUser, initPc,
                   authSession, authEvents, guardTimer, elapsed, pageLoads, loadCause, storage,
                   failures>>

\* setTimeout(() => onLogout(), 2000) fires
LogoutTimerFire(c) ==
    /\ logoutTimers[c] # <<>>
    /\ logoutTimers' = [logoutTimers EXCEPT ![c] = Tail(@)]
    /\ authOps' = authOps \cup {NewAuthOp(c, "signout", currentUser[c], "expired")}
    /\ UNCHANGED <<dbSessions, sessions, activeSession, isChatVisible, newEventCoords,
                   error, ops, sessSub, sessFeed, chatVars, loading, currentUser, initPc,
                   authSession, authEvents, guardTimer, elapsed, pageLoads, loadCause, storage,
                   envVars>>

\* supabase.auth.signOut(): the session is removed and SIGNED_OUT notified
SignOutExec(o) ==
    /\ o.kind = "signout" /\ o.stage = "req"
    /\ authOps' = (authOps \ {o}) \cup {[o EXCEPT !.stage = "ok"]}
    /\ authSession' = [authSession EXCEPT ![o.client] = NoUser]
    /\ authEvents' = Emit(o.client, [event |-> "SIGNED_OUT", user |-> NoUser])
    /\ UNCHANGED <<dbSessions, mainVars, chatVars, loading, currentUser, initPc,
                   guardTimer, elapsed, pageLoads, loadCause, storage,
                   envVars>>

\* handleLogout after its await: the storage is cleared; on an error
\* window.location.href = '/' loads the page anew
SignOutResp(o) ==
    /\ o.kind = "signout" /\ o.stage # "req"
    /\ IF o.stage = "ok"
       THEN /\ authOps' = authOps \ {o}
            /\ storage' = [storage EXCEPT ![o.client] = "cleared"]
            /\ UNCHANGED <<dbSessions, mainVars, chatVars, loading, currentUser, initPc,
                           authSession, authEvents, guardTimer, elapsed, pageLoads,
                           loadCause, envVars>>
       ELSE Reload(o.client, "logout")

\* an App call fails
AuthExecFail(o) ==
    /\ o.stage = "req"
    /\ failures < MaxFailures
    /\ failures' = failures + 1
    /\ authOps' = (authOps \ {o}) \cup {[o EXCEPT !.stage = "error"]}
    /\ UNCHANGED <<dbSessions, mainVars, chatVars, loading, currentUser, initPc,
                   authSession, authEvents, guardTimer, elapsed, pageLoads, loadCause, storage,
                   invoked>>

\* a second passes while the guard's timer is set
Tick(c) ==
    /\ guardTimer[c] = "armed"
    /\ elapsed[c] < LoadingTimeout
    /\ elapsed' = [elapsed EXCEPT ![c] = @ + 1]
    /\ UNCHANGED <<dbSessions, mainVars, chatVars, loading, currentUser, initPc,
                   authSession, authEvents, authOps, guardTimer, pageLoads, loadCause, storage,
                   envVars>>

\* the guard's timer fires: localStorage.clear(), sessionStorage.clear(),
\* window.location.reload()
GuardFire(c) ==
    /\ guardTimer[c] = "armed"
    /\ elapsed[c] = LoadingTimeout
    /\ Reload(c, "guard")

\* every client has finished its initialization with the user it shows
AuthResolved ==
    /\ initPc = [c \in Clients |-> "listening"]
    /\ authSession = currentUser
    /\ authEvents = [c \in Clients |-> <<>>]
    /\ authOps = {}
    /\ guardTimer = [c \in Clients |-> "off"]
    /\ elapsed = [c \in Clients |-> 0]
    /\ pageLoads = [c \in Clients |-> 0]
    /\ loadCause = [c \in Clients |-> "start"]
    /\ storage = [c \in Clients |-> IF currentUser[c] # NoUser THEN "used" ELSE "cleared"]

\* --------------------------------------------------- session lifecycle
\* the clients that act in the lifecycle specification
SessClients == 1..2

\* The clients have signed in, MainApp is rendered and has loaded the session
\* list of an empty store; its sessions channel is live.
InitSess ==
    /\ dbSessions = <<>>
    /\ loading = [c \in Clients |-> FALSE]
    /\ currentUser = [c \in Clients |-> IF c \in SessClients THEN c ELSE NoUser]
    /\ sessions = [c \in Clients |-> {}]
    /\ activeSession = [c \in Clients |-> NoSession]
    /\ isChatVisible = [c \in Clients |-> FALSE]
    /\ newEventCoords = [c \in Clients |-> FALSE]
    /\ error = [c \in Clients |-> Null]
    /\ logoutTimers = [c \in Clients |-> <<>>]
    /\ ops = {}
    /\ sessSub = [c \in Clients |-> IF c \in SessClients THEN "live" ELSE "off"]
    /\ sessFeed = [c \in Clients |-> FALSE]
    /\ failures = 0
    /\ invoked = 0
    /\ dbMessages = <<>>
    /\ chatMessages = [c \in Clients |-> <<>>]
    /\ chatSub = [c \in Clients |-> NoChatSub]
    /\ chatFeed = [c \in Clients |-> <<>>]
    /\ chatOps = {}
    /\ AuthResolved

NextSess ==
    \/ \E c \in SessClients :
          \/ Refresh(c)
          \/ handleMapClickInCreateMode(c)
          \/ \E d \in Durations : CreateInvoke(c, d)
          \/ LeaveInvoke(c)
          \/ \E sid \in SessionIds :
                \/ JoinInvoke(c, sid)
                \/ CloseInvoke(c, sid)
                \/ ExtendInvoke(c, sid)
    \/ \E o \in ops :
          \/ CreateExec(o)
          \/ CreateResp(o)
          \/ JoinExec(o)
          \/ JoinResp(o)
          \/ LeaveExec(o)
          \/ LeaveResp(o)
          \/ CloseExec(o)
          \/ CloseResp(o)
          \/ ExtendExec(o)
          \/ ExtendResp(o)
          \/ \E out \in Failures : ExecFail(o, out)

SpecSess == InitSess /\ [][NextSess]_vars

\* ------------------------------------------------- MainApp: chat
\* profiles.username of each user
UserNames == <<"ann", "bob", "cat", "dan", "eve">>
Username(u) == UserNames[u]

\* a messages row as the client holds it, with the sender's name
Message(i, name) ==
    [id |-> i, event_id |-> dbMessages[i].event_id,
     sender_id |-> dbMessages[i].sender_id, username |-> name]

RECURSIVE MessagesOf(_, _)
\* .select('*, sender:profiles(username)').eq('event_id', id).order('created_at'),
\* over the rows 1..n
MessagesOf(sid, n) ==
    IF n = 0 THEN <<>>
    ELSE IF dbMessages[n].event_id = sid
         THEN Append(MessagesOf(sid, n - 1), Message(n, Username(dbMessages[n].sender_id)))
         ELSE MessagesOf(sid, n - 1)

PendingSends == Cardinality({o \in chatOps : o.kind = "send" /\ o.stage = "req"})

OnlyChatOps == UNCHANGED <<dbSessions, mainVars, appVars, failures, invoked,
                           dbMessages, chatMessages, chatSub, chatFeed>>

\* handleSendMessage up to its await; the input is in the open chat panel
SendInvoke(c) ==
    /\ Rendered(c) /\ sessionValid
    /\ activeSession[c] # NoSession
    /\ isChatVisible[c]
    /\ Len(dbMessages) + PendingSends < MaxMessages
    /\ chatOps' = chatOps \cup {NewChatOp(c, "send", activeSession[c].id, 0)}
    /\ OnlyChatOps

\* .from('messages').insert({ text, sender_id, event_id }); the feed queues
\* an INSERT event for every live channel filtered on the session
SendExec(o) ==
    /\ o.kind = "send" /\ o.stage = "req"
    /\ dbMessages' = Append(dbMessages, [event_id |-> o.sid, sender_id |-> o.user])
    /\ chatFeed' = [c \in Clients |->
                       IF chatSub[c].state = "live" /\ chatSub[c].sid = o.sid
                       THEN Append(chatFeed[c], Len(dbMessages) + 1)
                       ELSE chatFeed[c]]
    /\ chatOps' = (chatOps \ {o}) \cup {[o EXCEPT !.stage = "ok"]}
    /\ UNCHANGED <<dbSessions, mainVars, appVars, failures, invoked, chatMessages, chatSub>>

\* a handleSendMessage that adds the sent message itself on success
SendRespOptimistic(o) ==
    /\ o.kind = "send" /\ o.stage # "req"
    /\ chatOps' = chatOps \ {o}
    /\ IF o.stage = "ok"
       THEN /\ UNCHANGED <<error, logoutTimers>>
            /\ chatMessages' = [chatMessages EXCEPT ![o.client] =
                                   Append(@, Message(Len(dbMessages), Username(o.user)))]
       ELSE /\ AfterError(o, Null, Null)
            /\ UNCHANGED chatMessages
    /\ UNCHANGED <<dbSessions, sessions, activeSession, isChatVisible, newEventCoords, ops,
                   sessSub, sessFeed, appVars, failures, invoked,
                   dbMessages, chatSub, chatFeed>>

\* handleSendMessage after its await: nothing is added to chatMessages
SendResp(o) ==
    /\ o.kind = "send" /\ o.stage # "req"
    /\ chatOps' = chatOps \ {o}
    /\ IF o.stage = "ok"
       THEN UNCHANGED <<error, logoutTimers>>
       ELSE AfterError(o, Null, Null)
    /\ UNCHANGED <<dbSessions, sessions, activeSession, isChatVisible, newEventCoords, ops,
                   sessSub, sessFeed, appVars, failures, invoked,
                   dbMessages, chatMessages, chatSub, chatFeed>>

\* the store executes fetchMessages' select
MsgFetchExec(o) ==
    /\ o.kind = "msgfetch" /\ o.stage = "req"
    /\ chatOps' = (chatOps \ {o}) \cup
                  {[o EXCEPT !.stage = "ok", !.msgs = MessagesOf(o.sid, Len(dbMessages))]}
    /\ OnlyChatOps

\* fetchMessages after its await: setChatMessages(data)
MsgFetchResp(o) ==
    /\ o.kind = "msgfetch" /\ o.stage # "req"
    /\ chatOps' = chatOps \ {o}
    /\ IF o.stage = "ok"
       THEN /\ chatMessages' = IF o.orphan THEN chatMessages
                                ELSE [chatMessages EXCEPT ![o.client] = o.msgs]
            /\ UNCHANGED <<error, logoutTimers>>
       ELSE /\ AfterError(o, Null, Null)
            /\ UNCHANGED chatMessages
    /\ UNCHANGED <<dbSessions, sessions, activeSession, isChatVisible, newEventCoords, ops,
                   sessSub, sessFeed, appVars, failures, invoked,
                   dbMessages, chatSub, chatFeed>>

\* the messages channel becomes live at the store
ChatSubLive(c) ==
    /\ chatSub[c].state = "joining"
    /\ chatSub' = [chatSub EXCEPT ![c].state = "live"]
    /\ UNCHANGED <<dbSessions, mainVars, appVars, failures, invoked,
                   dbMessages, chatMessages, chatFeed, chatOps>>

\* async (payload) => { ... }: the INSERT handler up to its profile lookup
FeedDeliver(c) ==
    /\ chatSub[c].state = "live"
    /\ chatFeed[c] # <<>>
    /\ chatFeed' = [chatFeed EXCEPT ![c] = Tail(@)]
    /\ chatOps' = chatOps \cup {NewChatOp(c, "lookup", chatSub[c].sid, Head(chatFeed[c]))}
    /\ UNCHANGED <<dbSessions, mainVars, appVars, failures, invoked,
                   dbMessages, chatMessages, chatSub>>

\* .from('profiles').select('username').eq('id', sender_id).single()
LookupExec(o) ==
    /\ o.kind = "lookup" /\ o.stage = "req"
    /\ chatOps' = (chatOps \ {o}) \cup {[o EXCEPT !.stage = "ok"]}
    /\ OnlyChatOps

\* the INSERT handler after its await: the message is appended, under the
\* sender's name or, when the lookup returned an error, under 'Unknown'
LookupResp(o) ==
    /\ o.kind = "lookup" /\ o.stage # "req"
    /\ chatOps' = chatOps \ {o}
    /\ chatMessages' =
          IF o.orphan \/ o.stage = "throw" THEN chatMessages
          ELSE [chatMessages EXCEPT ![o.client] =
                   Append(@, Message(o.mid, IF o.stage = "ok"
                                            THEN Username(dbMessages[o.mid].sender_id)
                                            ELSE "Unknown"))]
    /\ UNCHANGED <<dbSessions, mainVars, appVars, failures, invoked,
                   dbMessages, chatSub, chatFeed>>

\* a chat call fails: the store is not changed
ChatExecFail(o, out) ==
    /\ o.stage = "req"
    /\ out \in Failures
    /\ failures < MaxFailures
    /\ failures' = failures + 1
    /\ chatOps' = (chatOps \ {o}) \cup {[o EXCEPT !.stage = out]}
    /\ UNCHANGED <<dbSessions, mainVars, appVars, invoked,
                   dbMessages, chatMessages, chatSub, chatFeed>>

\* --------------------------------------------------------------- chat
\* the members of the session, and the member that acts
ChatMembers == 1..2
ChatClients == 1..1

ChatRow == [status |-> "active", creator |-> 1, duration |-> 30,
            participants |-> <<1, 2>>]

\* Client 1 has created session 1 and client 2 has joined it; both hold it
\* and show it; no chat panel is open and no message has been sent.
InitChat ==
    /\ dbSessions = <<ChatRow>>
    /\ loading = [c \in Clients |-> FALSE]
    /\ currentUser = [c \in Clients |-> IF c \in ChatMembers THEN c ELSE NoUser]
    /\ sessions = [c \in Clients |-> IF c \in ChatMembers THEN {[id |-> 1] @@ ChatRow}
                                      ELSE {}]
    /\ activeSession = [c \in Clients |->
                           IF c = 1 THEN [[id |-> 1] @@ ChatRow EXCEPT !.participants = <<1>>]
                           ELSE IF c = 2 THEN [id |-> 1] @@ ChatRow
                           ELSE NoSession]
    /\ isChatVisible = [c \in Clients |-> FALSE]
    /\ newEventCoords = [c \in Clients |-> FALSE]
    /\ error = [c \in Clients |-> Null]
    /\ logoutTimers = [c \in Clients |-> <<>>]
    /\ ops = {}
    /\ sessSub = [c \in Clients |-> IF c \in ChatMembers THEN "live" ELSE "off"]
    /\ sessFeed = [c \in Clients |-> FALSE]
    /\ failures = 0
    /\ invoked = 0
    /\ dbMessages = <<>>
    /\ chatMessages = [c \in Clients |-> <<>>]
    /\ chatSub = [c \in Clients |-> NoChatSub]
    /\ chatFeed = [c \in Clients |-> <<>>]
    /\ chatOps = {}
    /\ AuthResolved

NextChat ==
    \/ \E c \in ChatClients :
          \/ ViewChat(c)
          \/ CloseChat(c)
          \/ SendInvoke(c)
          \/ ChatSubLive(c)
          \/ FeedDeliver(c)
    \/ \E o \in chatOps :
          \/ SendExec(o)
          \/ SendResp(o)
          \/ MsgFetchExec(o)
          \/ MsgFetchResp(o)
          \/ LookupExec(o)
          \/ LookupResp(o)
          \/ \E out \in Failures : ChatExecFail(o, out)

SpecChat == InitChat /\ [][NextChat]_vars

\* the number of times message i is in the local list of c
Occurrences(c, i) == Cardinality({k \in DOMAIN chatMessages[c] : chatMessages[c][k].id = i})

\* the chat of c is open, live and has nothing outstanding
ChatSettled(c) ==
    /\ isChatVisible[c]
    /\ activeSession[c] # NoSession
    /\ chatSub[c] = [sid |-> activeSession[c].id, state |-> "live"]
    /\ ChatOpsOf(c) = {}
    /\ chatFeed[c] = <<>>
    /\ failures = 0
    /\ invoked = 1

\* C8: once the chat of a client is open on its session, its channel is live
\* and none of its chat calls or events is outstanding, every message the
\* client has sent to the session is in its local list exactly once (no call
\* has failed and the chat was opened once).
C8_SentMessageShownOnce ==
    \A c \in Clients : \A i \in DOMAIN dbMessages :
        (/\ ChatSettled(c)
         /\ dbMessages[i].sender_id = currentUser[c]
         /\ dbMessages[i].event_id = activeSession[c].id)
        => Occurrences(c, i) = 1

\* ------------------------------------------------- concurrent joins
FirstRow == [status |-> "active", creator |-> 1, duration |-> 30,
             participants |-> <<1>>]

\* Client 1 has created a session and holds it; every client has signed in,
\* has loaded the session list and shows the session with participants {1}.
InitJoin ==
    /\ dbSessions = <<FirstRow>>
    /\ loading = [c \in Clients |-> FALSE]
    /\ currentUser = [c \in Clients |-> c]
    /\ sessions = [c \in Clients |-> {[id |-> 1] @@ FirstRow}]
    /\ activeSession = [c \in Clients |-> IF c = 1 THEN [id |-> 1] @@ FirstRow
                                           ELSE NoSession]
    /\ isChatVisible = [c \in Clients |-> FALSE]
    /\ newEventCoords = [c \in Clients |-> FALSE]
    /\ error = [c \in Clients |-> Null]
    /\ logoutTimers = [c \in Clients |-> <<>>]
    /\ ops = {}
    /\ sessSub = [c \in Clients |-> "live"]
    /\ sessFeed = [c \in Clients |-> FALSE]
    /\ failures = 0
    /\ invoked = 0
    /\ dbMessages = <<>>
    /\ chatMessages = [c \in Clients |-> <<>>]
    /\ chatSub = [c \in Clients |-> NoChatSub]
    /\ chatFeed = [c \in Clients |-> <<>>]
    /\ chatOps = {}
    /\ AuthResolved

NextJoin ==
    \/ \E c \in Clients :
          \/ Refresh(c)
          \/ LeaveInvoke(c)
          \/ \E sid \in SessionIds : JoinInvoke(c, sid)
    \/ \E o \in ops :
          \/ JoinExec(o)
          \/ JoinResp(o)
          \/ LeaveExec(o)
          \/ LeaveResp(o)
          \/ \E out \in Failures : ExecFail(o, out)

SpecJoin == InitJoin /\ [][NextJoin]_vars

\* ------------------------------------------------------ authentication
AuthClients == 1..1
AuthUsers == 1..2

\* The page of every client has just been loaded: App is loading, getSession
\* is awaited and the guard's timer is set; supabase.auth holds the session of
\* the client's user or none. The store is empty.
InitAuth ==
    /\ dbSessions = <<>>
    /\ loading = [c \in Clients |-> TRUE]
    /\ currentUser = [c \in Clients |-> NoUser]
    /\ initPc = [c \in Clients |-> "getSession"]
    /\ authSession \in {[c \in Clients |-> NoUser], [c \in Clients |-> c]}
    /\ authEvents = [c \in Clients |-> <<>>]
    /\ authOps = {}
    /\ guardTimer = [c \in Clients |-> LoadingTimer(TRUE)]
    /\ elapsed = [c \in Clients |-> 0]
    /\ pageLoads = [c \in Clients |-> 0]
    /\ loadCause = [c \in Clients |-> "start"]
    /\ storage = [c \in Clients |-> IF authSession[c] # NoUser THEN "used" ELSE "cleared"]
    /\ sessions = [c \in Clients |-> {}]
    /\ activeSession = [c \in Clients |-> NoSession]
    /\ isChatVisible = [c \in Clients |-> FALSE]
    /\ newEventCoords = [c \in Clients |-> FALSE]
    /\ error = [c \in Clients |-> Null]
    /\ logoutTimers = [c \in Clients |-> <<>>]
    /\ ops = {}
    /\ sessSub = [c \in Clients |-> "off"]
    /\ sessFeed = [c \in Clients |-> FALSE]
    /\ failures = 0
    /\ invoked = 0
    /\ dbMessages = <<>>
    /\ chatMessages = [c \in Clients |-> <<>>]
    /\ chatSub = [c \in Clients |-> NoChatSub]
    /\ chatFeed = [c \in Clients |-> <<>>]
    /\ chatOps = {}

NextAuth ==
    \/ \E c \in AuthClients :
          \/ \E res \in {"ok", "error", "unconfirmed"} : InitGetSessionResp(c, res)
          \/ InitFinish(c)
          \/ \E u \in AuthUsers : SignIn(c, u)
          \/ AuthEventDeliver(c)
          \/ VisibilityChange(c)
          \/ \E u \in AuthUsers \cup {NoUser} : SessionChanged(c, u)
          \/ LogoutButton(c)
          \/ Tick(c)
          \/ GuardFire(c)
          \/ SubscribeLive(c)
    \/ \E o \in authOps :
          \/ ProfileExec(o)
          \/ ProfileResp(o)
          \/ RevalResp(o)
          \/ SignOutExec(o)
          \/ SignOutResp(o)
          \/ AuthExecFail(o)
    \/ \E o \in ops :
          \/ FetchExec(o)
          \/ FetchResp(o)

SpecAuth == InitAuth /\ [][NextAuth]_vars

\* ------------------------------------------------- the render gate
\* App and MainApp of one client together, from the page load on: sign-in,
\* sign-out, the sessions feed, create and the chat panel
NextGate ==
    \/ \E c \in AuthClients :
          \/ \E res \in {"ok", "error", "unconfirmed"} : InitGetSessionResp(c, res)
          \/ InitFinish(c)
          \/ \E u \in AuthUsers : SignIn(c, u)
          \/ AuthEventDeliver(c)
          \/ LogoutButton(c)
          \/ LogoutTimerFire(c)
          \/ SubscribeLive(c)
          \/ PushDeliver(c)
          \/ handleMapClickInCreateMode(c)
          \/ \E d \in Durations : CreateInvoke(c, d)
          \/ ViewChat(c)
    \/ \E o \in authOps :
          \/ ProfileExec(o)
          \/ ProfileResp(o)
          \/ SignOutExec(o)
          \/ SignOutResp(o)
          \/ AuthExecFail(o)
    \/ \E o \in ops :
          \/ FetchExec(o)
          \/ FetchResp(o)
          \/ CreateExec(o)
          \/ CreateResp(o)
          \/ \E out \in Failures : ExecFail(o, out)
    \/ \E o \in chatOps :
          \/ MsgFetchExec(o)
          \/ MsgFetchResp(o)

SpecGate == InitAuth /\ [][NextGate]_vars

\* -------------------------------------------------------------- logout
\* Client 1 is signed in and MainApp is shown; the other clients are at the
\* login screen. The store is empty.
InitLogout ==
    /\ dbSessions = <<>>
    /\ loading = [c \in Clients |-> FALSE]
    /\ currentUser = [c \in Clients |-> IF c \in AuthClients THEN c ELSE NoUser]
    /\ sessions = [c \in Clients |-> {}]
    /\ activeSession = [c \in Clients |-> NoSession]
    /\ isChatVisible = [c \in Clients |-> FALSE]
    /\ newEventCoords = [c \in Clients |-> FALSE]
    /\ error = [c \in Clients |-> Null]
    /\ logoutTimers = [c \in Clients |-> <<>>]
    /\ ops = {}
    /\ sessSub = [c \in Clients |-> IF c \in AuthClients THEN "live" ELSE "off"]
    /\ sessFeed = [c \in Clients |-> FALSE]
    /\ failures = 0
    /\ invoked = 0
    /\ dbMessages = <<>>
    /\ chatMessages = [c \in Clients |-> <<>>]
    /\ chatSub = [c \in Clients |-> NoChatSub]
    /\ chatFeed = [c \in Clients |-> <<>>]
    /\ chatOps = {}
    /\ AuthResolved

NextLogout ==
    \/ \E c \in AuthClients :
          \/ LogoutButton(c)
          \/ VisibilityChange(c)
          \/ \E u \in AuthUsers \cup {NoUser} : SessionChanged(c, u)
          \/ AuthEventDeliver(c)
          \/ \E res \in {"ok", "error"} : InitGetSessionResp(c, res)
          \/ \E u \in AuthUsers : SignIn(c, u)
          \/ SubscribeLive(c)
    \/ \E o \in authOps :
          \/ ProfileExec(o)
          \/ ProfileResp(o)
          \/ RevalResp(o)
          \/ SignOutExec(o)
          \/ SignOutResp(o)
          \/ AuthExecFail(o)
    \/ \E o \in ops :
          \/ FetchExec(o)
          \/ FetchResp(o)

\* the remote sign-out answers, handleLogout continues and the listener's
\* callback runs: none of them waits for ever
FairLogout ==
    /\ WF_vars(\E o \in authOps : SignOutExec(o))
    /\ WF_vars(\E o \in authOps : SignOutResp(o))
    /\ \A c \in AuthClients : WF_vars(AuthEventDeliver(c))

SpecLogout == InitLogout /\ [][NextLogout]_vars /\ FairLogout

\* C11: a handleLogout call that has invoked signOut leads to a state
\* without a current user, and the step in which handleLogout continues
\* after signOut, on success and on failure, leaves the storage cleared.
C11_LogoutClearsIdentity ==
    /\ \A c \in Clients :
          (\E o \in AuthOpsOf(c) : o.kind = "signout" /\ o.stage = "req")
             ~> (currentUser[c] = NoUser)
    /\ [][\A o \in authOps :
            (o.kind = "signout" /\ o.stage # "req" /\ o \notin authOps')
               => storage'[o.client] = "cleared"]_vars

\* the sign-out of client 1 failed: the page was loaded anew, without a user
C11_Witness ==
    /\ loadCause[1] = "logout"
    /\ currentUser[1] = NoUser
    /\ storage[1] = "cleared"

\* the listener of c handles a SIGNED_OUT notification in the step
SignedOutHandled(c) ==
    /\ authEvents[c] # <<>>
    /\ Head(authEvents[c]).event = "SIGNED_OUT"
    /\ authEvents'[c] = Tail(authEvents[c])

\* the page of c is loaded anew in the step
PageReloaded(c) == pageLoads'[c] = pageLoads[c] + 1

\* C12: within a page load, loading never becomes true again, and a current
\* user is cleared or replaced only by the handling of a sign-out (explicit
\* or forced by the focus revalidation) or by the page being loaded anew.
C12_AuthStateMachine ==
    [][\A c \in Clients :
          /\ (~loading[c] /\ loading'[c]) => PageReloaded(c)
          /\ (currentUser[c] # NoUser /\ currentUser'[c] # currentUser[c])
                => (SignedOutHandled(c) \/ PageReloaded(c))]_vars

SessionExpired == "Session expired. Please log in again."

\* C14: the step in which a mounted client continues after a remote call
\* (a session call or a chat call) failed with an expired session sets the
\* banner and schedules the forced logout.
C14_AuthExpiredForcesLogout ==
    [][/\ \A o \in ops :
            (o.stage = "authexp" /\ ~o.orphan /\ o \notin ops')
            => /\ error'[o.client] = SessionExpired
               /\ Len(logoutTimers'[o.client]) = Len(logoutTimers[o.client]) + 1
       /\ \A o \in chatOps :
            (o.stage = "authexp" /\ ~o.orphan /\ o \notin chatOps')
            => /\ error'[o.client] = SessionExpired
               /\ Len(logoutTimers'[o.client]) = Len(logoutTimers[o.client]) + 1]_vars

\* the calls of refresh, create, close, extend, join, leave and sendMessage
RetryKinds == {"fetch", "create", "close", "extend", "join", "leave", "send"}

\* C15: the step in which a mounted client continues after one of these
\* calls returned an error that is not an expired session shows a banner,
\* schedules no logout and issues no call of the same kind again.
C15_TransientShowsBanner ==
    [][/\ \A o \in ops :
            (o.kind \in RetryKinds /\ o.stage = "transient" /\ ~o.orphan /\ o \notin ops')
            => /\ error'[o.client] # Null
               /\ logoutTimers' = logoutTimers
               /\ \A n \in ops' \ ops : ~(n.client = o.client /\ n.kind = o.kind)
       /\ \A o \in chatOps :
            (o.kind \in RetryKinds /\ o.stage = "transient" /\ ~o.orphan
                /\ o \notin chatOps')
            => /\ error'[o.client] # Null
               /\ logoutTimers' = logoutTimers
               /\ \A n \in chatOps' \ chatOps : ~(n.client = o.client /\ n.kind = o.kind)]_vars

\* ------------------------------------------------------ the chat panel
PanelRow1 == [status |-> "active", creator |-> 1, duration |-> 30,
              participants |-> <<1, 2>>]
PanelRow2 == [status |-> "active", creator |-> 3, duration |-> 30,
              participants |-> <<3>>]

\* Two sessions are active. Client 1 is signed in, lists both and holds
\* session 1; its chat panel is closed.
InitPanel ==
    /\ dbSessions = <<PanelRow1, PanelRow2>>
    /\ loading = [c \in Clients |-> FALSE]
    /\ currentUser = [c \in Clients |-> IF c \in AuthClients THEN c ELSE NoUser]
    /\ sessions = [c \in Clients |->
                      IF c \in AuthClients
                      THEN {[id |-> 1] @@ PanelRow1, [id |-> 2] @@ PanelRow2}
                      ELSE {}]
    /\ activeSession = [c \in Clients |->
                           IF c \in AuthClients THEN [id |-> 1] @@ PanelRow1
                           ELSE NoSession]
    /\ isChatVisible = [c \in Clients |-> FALSE]
    /\ newEventCoords = [c \in Clients |-> FALSE]
    /\ error = [c \in Clients |-> Null]
    /\ logoutTimers = [c \in Clients |-> <<>>]
    /\ ops = {}
    /\ sessSub = [c \in Clients |-> IF c \in AuthClients THEN "live" ELSE "off"]
    /\ sessFeed = [c \in Clients |-> FALSE]
    /\ failures = 0
    /\ invoked = 0
    /\ dbMessages = <<>>
    /\ chatMessages = [c \in Clients |-> <<>>]
    /\ chatSub = [c \in Clients |-> NoChatSub]
    /\ chatFeed = [c \in Clients |-> <<>>]
    /\ chatOps = {}
    /\ AuthResolved

NextPanel ==
    \/ \E c \in AuthClients :
          \/ ViewChat(c)
          \/ CloseChat(c)
          \/ ChatSubLive(c)
          \/ Refresh(c)
          \/ LeaveInvoke(c)
          \/ \E sid \in SessionIds : JoinInvoke(c, sid)
          \/ \E sid \in SessionIds : CloseInvoke(c, sid)
          \/ LogoutButton(c)
          \/ AuthEventDeliver(c)
    \/ \E o \in ops :
          \/ JoinExec(o)
          \/ JoinResp(o)
          \/ LeaveExec(o)
          \/ LeaveResp(o)
          \/ CloseExec(o)
          \/ CloseResp(o)
          \/ \E out \in Failures : ExecFail(o, out)
    \/ \E o \in chatOps :
          \/ MsgFetchExec(o)
          \/ MsgFetchResp(o)
          \/ \E out \in Failures : ChatExecFail(o, out)
    \/ \E o \in authOps :
          \/ SignOutExec(o)
          \/ SignOutResp(o)

SpecPanel == InitPanel /\ [][NextPanel]_vars

\* C16: a client has a messages channel (subscribing or live) only while
\* MainApp is mounted, it holds a session and its chat is visible, and the
\* channel filters on the id of that session; events are queued for a
\* channel only.
C16_ScopedSubscription ==
    \A c \in Clients :
        /\ chatSub[c].state # "off" =>
              /\ Rendered(c)
              /\ isChatVisible[c]
              /\ activeSession[c] # NoSession
              /\ chatSub[c].sid = activeSession[c].id
        /\ chatFeed[c] # <<>> => chatSub[c].state = "live"

\* client 1 left session 1, joined session 2 and opened the chat: its
\* channel is live on session 2
C16_Witness ==
    /\ activeSession[1].id = 2
    /\ chatSub[1] = [sid |-> 2, state |-> "live"]

\* C6: a client has at most one forced logout (a handleLogout call made by
\* the focus revalidation) whose signOut is in progress.
C6_SingleForcedLogout ==
    \A c \in Clients :
        Cardinality({o \in AuthOpsOf(c) : o.kind = "signout" /\ o.origin = "focus"}) <= 1

\* the step in which the loading guard of c fires
GuardFired(c) == pageLoads'[c] = pageLoads[c] + 1 /\ loadCause'[c] = "guard"

\* C7: the guard's timer is set whenever App is loading, and the guard fires
\* only in a state in which loading is still true 10 seconds after the page
\* load; the step clears the storage (the session is gone) and starts the
\* page anew. After initialization has completed it does not fire.
C7_LoadingGuard ==
    /\ [](\A c \in Clients : loading[c] => guardTimer[c] = "armed")
    /\ [][\A c \in Clients :
            GuardFired(c) =>
               /\ loading[c] /\ initPc[c] # "listening"
               /\ elapsed[c] = LoadingTimeout
               /\ loading'[c] /\ initPc'[c] = "getSession" /\ elapsed'[c] = 0
               /\ authSession'[c] = NoUser]_vars

\* the guard has fired once for client 1, whose initialization had not
\* completed
C7_Witness ==
    /\ loadCause[1] = "guard"
    /\ pageLoads[1] = 1
    /\ loading[1]

\* c issues a session fetch, a sessions subscription, a message fetch or a
\* messages subscription in the step
Issues(c) ==
    \/ \E o \in ops' \ ops :
          o.client = c /\ o.kind = "fetch" /\ o.stage = "req" /\ ~o.orphan
    \/ sessSub[c] = "off" /\ sessSub'[c] # "off"
    \/ \E o \in chatOps' \ chatOps :
          o.client = c /\ o.kind = "msgfetch" /\ o.stage = "req" /\ ~o.orphan
    \/ chatSub'[c] # chatSub[c] /\ chatSub'[c].state = "joining"

\* C10: a step in which a client issues a session fetch, a sessions
\* subscription, a message fetch or a messages subscription ends with the
\* client not loading, its initialization finished and a current user set.
C10_RemoteOnlyWhenResolved ==
    [][\A c \in Clients :
          Issues(c) => /\ ~loading'[c]
                       /\ initPc'[c] = "listening"
                       /\ currentUser'[c] # NoUser]_vars

\* client 1 has a session fetch and a message fetch in flight, with both
\* channels subscribed
C10_Witness ==
    /\ \E o \in ops : o.client = 1 /\ o.kind = "fetch" /\ ~o.orphan
    /\ \E o \in chatOps : o.client = 1 /\ o.kind = "msgfetch" /\ ~o.orphan
    /\ sessSub[1] # "off"
    /\ chatSub[1].state # "off"

\* ------------------------------------------------------------- claims
NoRepeat(s) == \A i, j \in 1..Len(s) : s[i] = s[j] => i = j

\* C1: after every join and leave, however stale the copy the client acted
\* on, no session's participants holds an id twice.
C1_NoDuplicateMembership ==
    \A i \in 1..Len(dbSessions) : NoRepeat(dbSessions[i].participants)

Front(s) == SubSeq(s, 1, Len(s) - 1)
Last(s) == s[Len(s)]

\* b and c hold session i, each through a join written from the same copy p
\* of the participants, and these two joins are all that has been started
JoinedFromSameSnapshot(b, c, i) ==
    /\ b # c
    /\ invoked = 2
    /\ activeSession[b].id = i /\ activeSession[c].id = i
    /\ Len(activeSession[b].participants) > 0
    /\ Last(activeSession[b].participants) = b
    /\ Last(activeSession[c].participants) = c
    /\ Front(activeSession[b].participants) = Front(activeSession[c].participants)

\* the step executes the write of the join o at the store
JoinWritten(o) ==
    /\ o \in ops /\ o.kind = "join" /\ o.stage = "req"
    /\ o \notin ops'
    /\ \E w \in ops' \ ops : /\ w.client = o.client /\ w.kind = "join"
                              /\ w.slot = o.slot /\ w.stage = "ok"

\* C2: the write of a join replaces the remote participants by the copy the
\* joining client read, with the client appended; so when two clients have
\* joined a session from the same copy, both writes succeeded and both hold
\* the session, the remote participants hold only one of the two.
C2_LostUpdate ==
    /\ [][\A o \in ops :
            JoinWritten(o) => dbSessions'[o.sid].participants = o.parts]_vars
    /\ [](\A b, c \in Clients : \A i \in 1..Len(dbSessions) :
            JoinedFromSameSnapshot(b, c, i) =>
                ~({b, c} \subseteq Range(dbSessions[i].participants)))

\* clients 2 and 3 joined the session of client 1 from the copy {1}
C2_Witness ==
    /\ JoinedFromSameSnapshot(2, 3, 1)
    /\ Front(activeSession[2].participants) = <<1>>
    /\ dbSessions[1].participants \in {<<1, 2>>, <<1, 3>>}
    /\ ops = {}

\* C3: a create or a join invoked while the actor holds an active session
\* issues no remote call (no insert, no participants write).
C3_AlreadyInSession ==
    [][\A c \in Clients :
          activeSession[c] # NoSession =>
              {o \in ops' : o.client = c /\ o.kind \in {"create", "join"} /\ o.stage = "req"}
                  \subseteq ops]_vars

ActiveSessionsOf(u) ==
    {i \in 1..Len(dbSessions) :
        dbSessions[i].status = "active" /\ u \in Range(dbSessions[i].participants)}

\* C4: in the remote store every identity is a participant of at most one
\* active session.
C4_AtMostOneActiveSession ==
    \A u \in Users : Cardinality(ActiveSessionsOf(u)) <= 1

\* nothing is in flight and every live sessions feed has been drained
Quiet ==
    /\ ops = {}
    /\ \A c \in Clients : ~sessFeed[c]

\* C5: once a session created by one client and joined by another is closed
\* and everything in flight has been handled, no participant holds it as its
\* active session and no chat view is open on it.
C5_CloseClearsEveryParticipant ==
    \A c \in Clients : \A i \in 1..Len(dbSessions) :
        (/\ Quiet
         /\ dbSessions[i].status = "closed"
         /\ dbSessions[i].creator # currentUser[c]
         /\ currentUser[c] \in Range(dbSessions[i].participants))
        => (activeSession[c].id # i /\ ~isChatVisible[c])

\* C9: a closed session stays closed and no row of the sessions table is
\* ever removed or replaced by another session.
C9_StatusMonotonic ==
    [][/\ Len(dbSessions') >= Len(dbSessions)
       /\ \A i \in 1..Len(dbSessions) :
             /\ dbSessions'[i].creator = dbSessions[i].creator
             /\ dbSessions[i].status = "closed" => dbSessions'[i].status = "closed"]_vars

\* a join, a leave or an extend has been executed on a closed session
C9_Witness ==
    \E o \in ops :
        /\ o.kind \in {"join", "leave", "extend"}
        /\ o.stage = "ok"
        /\ dbSessions[o.sid].status = "closed"

\* the ids of the messages in the local list of c, in list order
ListIds(c) == [k \in DOMAIN chatMessages[c] |-> chatMessages[c][k].id]

\* C17: the messages of a local list without repetition are in the order
\* in which the feed delivered their events (the order of their ids).
C17_FeedOrder ==
    \A c \in Clients :
        NoRepeat(ListIds(c)) =>
            \A j, k \in DOMAIN chatMessages[c] :
                j < k => chatMessages[c][j].id < chatMessages[c][k].id


\* the INSERT handler o of a mounted client returns from its profile lookup
LookupReturns(o) ==
    /\ o \in chatOps /\ o \notin chatOps'
    /\ o.kind = "lookup" /\ o.stage # "req" /\ ~o.orphan

\* C18: the handler of every delivered INSERT event appends the message when
\* its profile lookup is over, under the sender's name when the lookup
\* succeeded and under 'Unknown' when it failed; a failed lookup sets no
\* banner and starts no logout.
C18_EventAppended ==
    [][\A o \in chatOps :
          LookupReturns(o) =>
              /\ chatMessages'[o.client] =
                    Append(chatMessages[o.client],
                           Message(o.mid, IF o.stage = "ok"
                                          THEN Username(dbMessages[o.mid].sender_id)
                                          ELSE "Unknown"))
              /\ o.stage # "ok" => UNCHANGED <<error, logoutTimers>>]_vars


\* a step of handleSendMessage: it is called, its insert is executed or
\* fails at the store, or it returns from its await
SendStep ==
    \E o \in chatOps \cup chatOps' :
        /\ o.kind = "send"
        /\ o \notin chatOps \/ o \notin chatOps'

\* C19: no step of handleSendMessage changes a local message list, whether
\* the insert succeeds or fails.
C19_SendKeepsList == [][SendStep => UNCHANGED chatMessages]_vars

\* a send of client 1 has succeeded and returned, and its open chat panel
\* still shows an empty list
C19_Witness ==
    /\ Len(dbMessages) > 0
    /\ \A o \in chatOps : o.kind # "send"
    /\ isChatVisible[1]
    /\ chatMessages[1] = <<>>


\* the chat of session sid is what client c shows
InContext(c, sid) ==
    /\ isChatVisible[c]
    /\ activeSession[c] # NoSession
    /\ activeSession[c].id = sid

\* a bulk load or a profile lookup of o.client returns to its continuation
\* after the client has closed the chat of o.sid or no longer holds o.sid
LateReturn(o) ==
    /\ o \in chatOps /\ o \notin chatOps'
    /\ o.kind \in {"msgfetch", "lookup"} /\ o.stage # "req"
    /\ ~InContext(o.client, o.sid)

\* C20: a bulk load or a lookup that returns after its context has ended
\* leaves the local message list as it is, and every message of the list
\* shown for the active session has that session's id.
C20_LateResponseIgnored ==
    /\ [][\A o \in chatOps : LateReturn(o) => UNCHANGED chatMessages]_vars
    /\ [](\A c \in Clients :
             activeSession[c] # NoSession /\ isChatVisible[c] =>
                 \A k \in DOMAIN chatMessages[c] :
                     chatMessages[c][k].event_id = activeSession[c].id)


\* ------------------------------------------------- concurrent refreshes
\* The lifecycle of the clients of InitSess with the refresh in its three
\* steps: a change event starts a fetchSessions while earlier ones are
\* still suspended at their select, and the responses return in any order.
NextRefresh ==
    \/ \E c \in SessClients :
          \/ PushDeliver(c)
          \/ handleMapClickInCreateMode(c)
          \/ \E d \in Durations : CreateInvoke(c, d)
          \/ \E sid \in SessionIds : CloseInvoke(c, sid)
    \/ \E o \in ops :
          \/ FetchExec(o)
          \/ FetchResp(o)
          \/ CreateExec(o)
          \/ CreateResp(o)
          \/ CloseExec(o)
          \/ CloseResp(o)

SpecRefresh == InitSess /\ [][NextRefresh]_vars

\* C21: when no call is in flight and no change event is undelivered, the
\* local session set of every client with a live feed is the set of the
\* active rows of the store.
C21_RefreshConverges ==
    \A c \in SessClients :
        (Quiet /\ sessSub[c] = "live") => sessions[c] = ActiveRows


\* handleLeaveSession of o.client returns from an update that succeeded
LeaveSucceeds(o) ==
    /\ o \in ops /\ o \notin ops'
    /\ o.kind = "leave" /\ o.stage = "ok" /\ ~o.orphan

\* handleLeaveSession, called by c for the session it holds, gets past its
\* early returns and issues the update
LeaveReachesUpdate(c) == sessionValid /\ Find(c, activeSession[c].id) # {}

\* C22: a leave that succeeded ends with the actor absent from the remote
\* participants of the session, its active session null and its chat
\* hidden; and, with nothing in flight, a leave called by a client that holds
\* a session gets to the update that clears it.
C22_LeaveClearsReference ==
    /\ [][\A o \in ops :
             LeaveSucceeds(o) =>
                 /\ o.user \notin Range(dbSessions'[o.sid].participants)
                 /\ activeSession'[o.client] = NoSession
                 /\ ~isChatVisible'[o.client]]_vars
    /\ [](\A c \in Clients :
             (Quiet /\ Rendered(c) /\ activeSession[c] # NoSession)
                 => LeaveReachesUpdate(c))


\* the state MainApp holds for client c
LocalState(c) ==
    <<sessions[c], activeSession[c], isChatVisible[c], newEventCoords[c], error[c],
      logoutTimers[c], chatMessages[c]>>

\* handleExtendSession is called and suspends at its update
ExtendIssued(o) ==
    /\ o \notin ops /\ o \in ops'
    /\ o.kind = "extend" /\ o.stage = "req" /\ ~o.orphan

\* the store executes the update of the extend o
ExtendWritten(o) ==
    /\ o \in ops /\ [o EXCEPT !.stage = "ok"] \in ops'
    /\ o.kind = "extend" /\ o.stage = "req"

\* handleExtendSession returns from an update that succeeded
ExtendSucceeds(o) ==
    /\ o \in ops /\ o \notin ops'
    /\ o.kind = "extend" /\ o.stage = "ok"

\* C23: an extend is issued only for a session of the local list, with the
\* duration of the local copy plus 15; the store then holds that duration
\* for the session and nothing else of the table has changed; the handler
\* changes nothing of the actor's local state when it is called and when it
\* returns from a successful update.
C23_ExtendFromCache ==
    [][/\ \A o \in ops' :
             ExtendIssued(o) =>
                 /\ \E r \in Find(o.client, o.sid) : o.dur = r.duration + 15
                 /\ LocalState(o.client)' = LocalState(o.client)
       /\ \A o \in ops :
             /\ ExtendWritten(o) =>
                   dbSessions' = [dbSessions EXCEPT ![o.sid].duration = o.dur]
             /\ ExtendSucceeds(o) => LocalState(o.client)' = LocalState(o.client)]_vars

\* an extend of a session created with 30 minutes has been written and has
\* returned
C23_Witness ==
    /\ \E i \in 1..Len(dbSessions) : dbSessions[i].duration = 45
    /\ \A o \in ops : o.kind # "extend"


\* the listener of c handles the SIGNED_IN notification of user u
SignedInHandled(c, u) ==
    /\ initPc[c] = "listening" /\ initPc'[c] = "listening"
    /\ authEvents[c] # <<>>
    /\ authEvents'[c] = Tail(authEvents[c])
    /\ Head(authEvents[c]) = [event |-> "SIGNED_IN", user |-> u]

\* the profile loads of user u that client c has in flight
ProfileLoads(c, u) == {o \in AuthOpsOf(c) : o.kind = "profile" /\ o.user = u}

\* C24: a SIGNED_IN notification of the user that is loaded starts no
\* profile load and leaves the identity unchanged; a SIGNED_IN of another
\* user starts a profile load of that user, and no client ever has two
\* profile loads of one user in flight.
C24_RedundantSignedIn ==
    /\ [][\A c \in Clients : \A u \in Users :
             SignedInHandled(c, u) =>
                 IF u = currentUser[c]
                 THEN UNCHANGED <<authOps, currentUser>>
                 ELSE /\ ProfileLoads(c, u)' # ProfileLoads(c, u)
                      /\ UNCHANGED currentUser]_vars
    /\ [](\A c \in Clients : \A u \in Users : Cardinality(ProfileLoads(c, u)) <= 1)


\* the listener of c has handled the SIGNED_OUT of the last sign-out:
\* supabase.auth holds no session, every notification has been handled and
\* no user is shown
SignedOutProcessed(c) ==
    /\ initPc[c] = "listening"
    /\ authSession[c] = NoUser
    /\ authEvents[c] = <<>>
    /\ currentUser[c] = NoUser

\* C25: once SIGNED_OUT has been handled and while no SIGNED_IN arrives, no
\* step sets the current user again, the return of a profile load that was
\* in flight included.
C25_SignedOutStays ==
    [][\A c \in Clients : SignedOutProcessed(c) => currentUser'[c] = NoUser]_vars


\* ------------------------------------------------- concurrent extends
\* The clients of InitJoin, each with the session in its list, extend it;
\* the refresh keeps their copies as the feed delivers the changes.
NextExtend ==
    \/ \E c \in Clients :
          \/ Refresh(c)
          \/ \E sid \in SessionIds : ExtendInvoke(c, sid)
    \/ \E o \in ops :
          \/ ExtendExec(o)
          \/ ExtendResp(o)
          \/ \E out \in Failures : ExecFail(o, out)

SpecExtend == InitJoin /\ [][NextExtend]_vars

\* C26: no write lowers the duration the store holds for a session.
C26_DurationMonotonic ==
    [][\A i \in 1..Len(dbSessions) :
          dbSessions'[i].duration >= dbSessions[i].duration]_vars


\* the store executes the update of the leave o
LeaveWritten(o) ==
    /\ o \in ops /\ [o EXCEPT !.stage = "ok"] \in ops'
    /\ o.kind = "leave" /\ o.stage = "req"

\* C27: the update of a leave takes the actor out of the participants the
\* store holds for the session and changes nothing else of them: nobody
\* else is removed and nobody is added.
C27_LeaveRemovesOnlyActor ==
    [][\A o \in ops :
          LeaveWritten(o) =>
              Range(dbSessions'[o.sid].participants) =
                  Range(dbSessions[o.sid].participants) \ {o.user}]_vars


\* the oldest forced-logout timer of c fires and calls onLogout()
ForcedLogoutFires(c) ==
    /\ logoutTimers[c] # <<>>
    /\ logoutTimers'[c] = Tail(logoutTimers[c])
    /\ \E o \in authOps' \ authOps :
          o.client = c /\ o.kind = "signout" /\ o.origin = "expired"

\* C28: a forced-logout timer that fires while a user is shown with its own
\* session finds the user whose failure set the timer, and a client never
\* has more than one forced logout pending.
C28_ForcedLogoutOwnIdentity ==
    /\ [][\A c \in Clients :
             (/\ ForcedLogoutFires(c)
              /\ currentUser[c] # NoUser
              /\ authSession[c] = currentUser[c])
                 => currentUser[c] = Head(logoutTimers[c])]_vars
    /\ [](\A c \in Clients : Len(logoutTimers[c]) <= 1)

====
